---- MODULE Spec2Model ----
(***************************************************************************)
(* A model of slyce: edge detection (EdgeFinder.js), the per-row and       *)
(* per-column aggregation of edge strengths (EdgeMaxValues), the margin    *)
(* scan (findMargins), the crop/pad compositor (cropExpand, util.js), the  *)
(* page's controller (SlyceApp, ui.js) and the pointer handling of         *)
(* ScrollZoom (EdgeFinder.js).                                             *)
(*                                                                         *)
(* Representation notes.                                                   *)
(*  - Arrays are functions over 0..n-1, as in the source.                  *)
(*  - An element w of a Uint32Array is represented by the 32-bit signed    *)
(*    integer with the same bit pattern (ToInt32(w)): every use of an      *)
(*    element in the source is a bitwise operator, which applies ToInt32   *)
(*    first, and every store wraps modulo 2^32, so the correspondence is   *)
(*    one to one.  x >> k is floor division by 2^k, x & 0xFF is x mod 256, *)
(*    and a << 24 wraps into the sign bit.                                 *)
(*  - A colour is a tuple <<r, g, b, a>> of bytes.                         *)
(***************************************************************************)
EXTENDS Integers, Sequences, FiniteSets, TLC

VARIABLES
    edgeMaxValues,  \* the EdgeMaxValues object: width, height, rowMaxs, columnMaxs
    image,          \* the image given to EdgeFinder.processImage
    diffToEdge,     \* EdgeFinder.diffToEdge (false: neighbor mode, true: border mode)
    limit,          \* the limit of the last findMargins call
    margins,        \* the Rectangle the last findMargins call returned
    source,         \* cropExpand: the source image object
    cropRect,       \* cropExpand: the target rectangle
    paddingColor,   \* cropExpand: config.paddingColor
    canvas,         \* cropExpand: the canvas created for the operation
    result,         \* cropExpand: what the call produced (ImageData or the error thrown)
    edgeMap,        \* the edge map: the RGBA bytes gl.readPixels delivered, row-major
    folded,         \* the pixel indices whose sample considerSample has been given
    sampled,        \* cropExpand: whether getTopLeftPixelColor has been called
    thisRect,       \* a Rectangle object (this)
    newRect,        \* the fields that Rectangle was constructed with
    call,           \* the last call on thisRect: [op, args, ret]
    app,            \* the SlyceApp object: sourceImage, edgeFinder, currentMargins, sliders
    pending,        \* processImageWithEdgeFinder invocations suspended at their await
    scrollZoom,     \* the ScrollZoom object: pointerState, singlePointerDownEvent
    env,            \* the pointers held down, the clock, what happened since each pointerdown
    lastEvent,      \* the last event ScrollZoom handled, with the click it reported
    pc              \* position of the driver

edgeVars == <<edgeMaxValues, image, diffToEdge, limit, margins, edgeMap, folded>>

cropVars == <<source, cropRect, paddingColor, canvas, result, sampled>>

rectVars == <<thisRect, newRect, call>>

appVars == <<app, pending>>

zoomVars == <<scrollZoom, env, lastEvent>>

vars == <<edgeVars, cropVars, rectVars, appVars, zoomVars, pc>>

----------------------------------------------------------------------------
(* Bounds of the model *)

\* largest EdgeMaxValues of arbitrary contents (SpecMargins)
MaxW == 3
MaxH == 2

\* longest side and largest number of pixels of an image given to the EdgeFinder
\* (SpecEdges)
MaxSide == 4
MaxPixels == 12

\* cropExpand: sources of at most CropMax by CropMax pixels; crop rectangles reach
\* one pixel beyond the largest source on every side
CropMax == 2

\* Rectangle: coordinates from -1 to RectMax
RectMax == 1

\* considerSample: edge maps of at most FoldW columns and 2 rows of arbitrary samples
FoldW == 2

\* processImage called again and again: images of at most ReuseW columns and 2 rows
ReuseW == 3

\* the value that stands for null / undefined
Null == "null"

----------------------------------------------------------------------------
(* Rectangle (util.js) *)

Rectangle(l, t, r, b) == [left |-> l, top |-> t, right |-> r, bottom |-> b]

isEmpty(r) == r.right <= r.left \/ r.bottom <= r.top

\* a contains whose right and bottom sides are inclusive
contains_closed(r, x, y) == x >= r.left /\ x <= r.right /\ y >= r.top /\ y <= r.bottom

contains(r, x, y) == x >= r.left /\ x < r.right /\ y >= r.top /\ y < r.bottom

getWidth(r) == r.right - r.left

getHeight(r) == r.bottom - r.top

\* a grow that never lets a side cross the opposite one
grow_normalized(r, amount) ==
    LET l == r.left - amount
        t == r.top - amount
    IN  [left |-> l, top |-> t,
         right |-> IF r.right + amount < l THEN l ELSE r.right + amount,
         bottom |-> IF r.bottom + amount < t THEN t ELSE r.bottom + amount]

grow(r, amount) ==
    Rectangle(r.left - amount, r.top - amount, r.right + amount, r.bottom + amount)

clone(r) == Rectangle(r.left, r.top, r.right, r.bottom)

Max2(a, b) == IF a >= b THEN a ELSE b

Min2(a, b) == IF a <= b THEN a ELSE b

\* the bounding box of two rectangles instead of their intersection
intersect_hull(this, other) ==
    [left |-> Min2(this.left, other.left), top |-> Min2(this.top, other.top),
     right |-> Max2(this.right, other.right), bottom |-> Max2(this.bottom, other.bottom)]

\* an intersection that keeps the left side of this
intersect_keepleft(this, other) ==
    [left |-> this.left, top |-> Max2(this.top, other.top),
     right |-> Min2(this.right, other.right), bottom |-> Min2(this.bottom, other.bottom)]

intersect(this, other) ==
    LET l == Max2(this.left, other.left)
        t == Max2(this.top, other.top)
        r == Min2(this.right, other.right)
        b == Min2(this.bottom, other.bottom)
    IN  Rectangle(l, t, r, b)

----------------------------------------------------------------------------
(* 32-bit words holding four byte channels, 0xAABBGGRR *)

\* x >> k on a 32-bit signed integer (arithmetic shift)
Shr(x, k) == x \div (2 ^ k)

\* x & 0xFF
AndFF(x) == x % 256

\* a << 24 for a byte a: bit 7 of a lands in the sign bit
Shl24(a) == (IF a >= 128 THEN a - 256 ELSE a) * 16777216

\* (a << 24) | (b << 16) | (g << 8) | r for bytes: the fields do not overlap
PackRGBA(r, g, b, a) == Shl24(a) + b * 65536 + g * 256 + r

RedOf(packed) == AndFF(packed)

GreenOf(packed) == AndFF(Shr(packed, 8))

BlueOf(packed) == AndFF(Shr(packed, 16))

AlphaOf(packed) == AndFF(Shr(packed, 24))

----------------------------------------------------------------------------
(* EdgeMaxValues (EdgeFinder.js) *)

\* new EdgeMaxValues(width, height): two zero-filled arrays
EdgeMaxValues(width, height) ==
    [width |-> width, height |-> height,
     rowMaxs |-> [y \in 0..(height - 1) |-> 0],
     columnMaxs |-> [x \in 0..(width - 1) |-> 0]]

\* a clear that fills the arrays with 0xFFFFFFFF
clear_ones(emv) ==
    [emv EXCEPT !.rowMaxs = [y \in DOMAIN emv.rowMaxs |-> -1],
                !.columnMaxs = [x \in DOMAIN emv.columnMaxs |-> -1]]

clear(emv) ==
    [emv EXCEPT !.rowMaxs = [y \in DOMAIN emv.rowMaxs |-> 0],
                !.columnMaxs = [x \in DOMAIN emv.columnMaxs |-> 0]]

\* a considerSample that takes the top byte of the sample without the & 0xFF
considerSample_signed(emv, x, y, packedRGBA) ==
    LET r == AndFF(packedRGBA)
        g == AndFF(Shr(packedRGBA, 8))
        b == AndFF(Shr(packedRGBA, 16))
        a == Shr(packedRGBA, 24)
        currentRowMax == emv.rowMaxs[y]
        rowR == Max2(AndFF(currentRowMax), r)
        rowG == Max2(AndFF(Shr(currentRowMax, 8)), g)
        rowB == Max2(AndFF(Shr(currentRowMax, 16)), b)
        rowA == Max2(AndFF(Shr(currentRowMax, 24)), a)
        currentColMax == emv.columnMaxs[x]
        colR == Max2(AndFF(currentColMax), r)
        colG == Max2(AndFF(Shr(currentColMax, 8)), g)
        colB == Max2(AndFF(Shr(currentColMax, 16)), b)
        colA == Max2(AndFF(Shr(currentColMax, 24)), a)
    IN  [emv EXCEPT !.rowMaxs[y] = PackRGBA(rowR, rowG, rowB, rowA),
                    !.columnMaxs[x] = PackRGBA(colR, colG, colB, colA)]

\* a considerSample that stores the sample in place of the maximum
considerSample_last(emv, x, y, packedRGBA) ==
    LET r == AndFF(packedRGBA)
        g == AndFF(Shr(packedRGBA, 8))
        b == AndFF(Shr(packedRGBA, 16))
        a == AndFF(Shr(packedRGBA, 24))
        currentRowMax == emv.rowMaxs[y]
        rowR == r
        rowG == g
        rowB == b
        rowA == a
        currentColMax == emv.columnMaxs[x]
        colR == r
        colG == g
        colB == b
        colA == a
    IN  [emv EXCEPT !.rowMaxs[y] = PackRGBA(rowR, rowG, rowB, rowA),
                    !.columnMaxs[x] = PackRGBA(colR, colG, colB, colA)]

\* a considerSample that writes the column maximum to every column
considerSample_spill(emv, x, y, packedRGBA) ==
    LET r == AndFF(packedRGBA)
        g == AndFF(Shr(packedRGBA, 8))
        b == AndFF(Shr(packedRGBA, 16))
        a == AndFF(Shr(packedRGBA, 24))
        currentRowMax == emv.rowMaxs[y]
        rowR == Max2(AndFF(currentRowMax), r)
        rowG == Max2(AndFF(Shr(currentRowMax, 8)), g)
        rowB == Max2(AndFF(Shr(currentRowMax, 16)), b)
        rowA == Max2(AndFF(Shr(currentRowMax, 24)), a)
        currentColMax == emv.columnMaxs[x]
        colR == Max2(AndFF(currentColMax), r)
        colG == Max2(AndFF(Shr(currentColMax, 8)), g)
        colB == Max2(AndFF(Shr(currentColMax, 16)), b)
        colA == Max2(AndFF(Shr(currentColMax, 24)), a)
    IN  [emv EXCEPT !.rowMaxs[y] = PackRGBA(rowR, rowG, rowB, rowA),
                    !.columnMaxs = [x2 \in DOMAIN emv.columnMaxs |->
                                       PackRGBA(colR, colG, colB, colA)]]

considerSample(emv, x, y, packedRGBA) ==
    LET r == AndFF(packedRGBA)
        g == AndFF(Shr(packedRGBA, 8))
        b == AndFF(Shr(packedRGBA, 16))
        a == AndFF(Shr(packedRGBA, 24))
        currentRowMax == emv.rowMaxs[y]
        rowR == Max2(AndFF(currentRowMax), r)
        rowG == Max2(AndFF(Shr(currentRowMax, 8)), g)
        rowB == Max2(AndFF(Shr(currentRowMax, 16)), b)
        rowA == Max2(AndFF(Shr(currentRowMax, 24)), a)
        currentColMax == emv.columnMaxs[x]
        colR == Max2(AndFF(currentColMax), r)
        colG == Max2(AndFF(Shr(currentColMax, 8)), g)
        colB == Max2(AndFF(Shr(currentColMax, 16)), b)
        colA == Max2(AndFF(Shr(currentColMax, 24)), a)
    IN  [emv EXCEPT !.rowMaxs[y] = PackRGBA(rowR, rowG, rowB, rowA),
                    !.columnMaxs[x] = PackRGBA(colR, colG, colB, colA)]

\* getRowMax(y) / getColumnMax(x): [r, g, b, a] = [up, down, left, right]
getRowMax(emv, y) ==
    LET packed == emv.rowMaxs[y]
    IN  <<AndFF(packed), AndFF(Shr(packed, 8)), AndFF(Shr(packed, 16)), AndFF(Shr(packed, 24))>>

getColumnMax(emv, x) ==
    LET packed == emv.columnMaxs[x]
    IN  <<AndFF(packed), AndFF(Shr(packed, 8)), AndFF(Shr(packed, 16)), AndFF(Shr(packed, 24))>>

----------------------------------------------------------------------------
(* findMargins (algorithm.js) *)

\* Variants of the scans and of findMargins with a plausible slip each; they are
\* used only to show that the checked properties depend on the code.
RECURSIVE scanLeft_ge(_, _, _, _)
scanLeft_ge(columnMaxs, width, lim, x) ==
    IF x < width
    THEN IF AndFF(Shr(columnMaxs[x], 16)) >= lim THEN x
         ELSE scanLeft_ge(columnMaxs, width, lim, x + 1)
    ELSE width

RECURSIVE scanRight_ge(_, _, _)
scanRight_ge(columnMaxs, lim, x) ==
    IF x >= 0
    THEN IF AndFF(Shr(columnMaxs[x], 24)) >= lim THEN x + 1
         ELSE scanRight_ge(columnMaxs, lim, x - 1)
    ELSE -1

\* the comparison is >= on the column scans
findMargins_ge(emv, lim) ==
    LET width == emv.width
        left0 == scanLeft_ge(emv.columnMaxs, width, lim, 0)
        right0 == scanRight_ge(emv.columnMaxs, lim, width - 1)
        xCollapsed == left0 >= width \/ right0 <= -1
    IN  [left |-> IF xCollapsed THEN 0 ELSE left0, top |-> 0,
         right |-> IF xCollapsed THEN 0 ELSE right0, bottom |-> 0]

\* for (x = 0; x < width; x++) if (blue(columnMaxs[x]) > limit) { left = x; break; }
RECURSIVE scanLeft(_, _, _, _)
scanLeft(columnMaxs, width, lim, x) ==
    IF x < width
    THEN IF BlueOf(columnMaxs[x]) > lim THEN x
         ELSE scanLeft(columnMaxs, width, lim, x + 1)
    ELSE width

\* a right scan that returns the column itself, not the column after it
RECURSIVE scanRight_inclusive(_, _, _)
scanRight_inclusive(columnMaxs, lim, x) ==
    IF x >= 0
    THEN IF AlphaOf(columnMaxs[x]) > lim THEN x
         ELSE scanRight_inclusive(columnMaxs, lim, x - 1)
    ELSE -1

\* for (x = width - 1; x >= 0; x--) if (alpha(columnMaxs[x]) > limit) { right = x + 1; break; }
RECURSIVE scanRight(_, _, _)
scanRight(columnMaxs, lim, x) ==
    IF x >= 0
    THEN IF AlphaOf(columnMaxs[x]) > lim THEN x + 1
         ELSE scanRight(columnMaxs, lim, x - 1)
    ELSE -1

\* for (y = 0; y < height; y++) if (red(rowMaxs[y]) > limit) { top = y; break; }
RECURSIVE scanTop(_, _, _, _)
scanTop(rowMaxs, height, lim, y) ==
    IF y < height
    THEN IF RedOf(rowMaxs[y]) > lim THEN y
         ELSE scanTop(rowMaxs, height, lim, y + 1)
    ELSE height

\* for (y = height - 1; y >= 0; y--) if (green(rowMaxs[y]) > limit) { bottom = y + 1; break; }
RECURSIVE scanBottom(_, _, _)
scanBottom(rowMaxs, lim, y) ==
    IF y >= 0
    THEN IF GreenOf(rowMaxs[y]) > lim THEN y + 1
         ELSE scanBottom(rowMaxs, lim, y - 1)
    ELSE -1

\* a bound that is not found is only clamped into the image, the axis does not collapse
findMargins_nocollapse(emv, lim) ==
    LET left0 == scanLeft(emv.columnMaxs, emv.width, lim, 0)
        right0 == scanRight(emv.columnMaxs, lim, emv.width - 1)
        top0 == scanTop(emv.rowMaxs, emv.height, lim, 0)
        bottom0 == scanBottom(emv.rowMaxs, lim, emv.height - 1)
    IN  Rectangle(left0, top0,
                  IF right0 <= -1 THEN 0 ELSE right0,
                  IF bottom0 <= -1 THEN 0 ELSE bottom0)

\* an axis on which a bound is not found spans the whole image
findMargins_fullspan(emv, lim) ==
    LET left0 == scanLeft(emv.columnMaxs, emv.width, lim, 0)
        right0 == scanRight(emv.columnMaxs, lim, emv.width - 1)
        top0 == scanTop(emv.rowMaxs, emv.height, lim, 0)
        bottom0 == scanBottom(emv.rowMaxs, lim, emv.height - 1)
        xCollapsed == left0 >= emv.width \/ right0 <= -1
        yCollapsed == top0 >= emv.height \/ bottom0 <= -1
    IN  Rectangle(IF xCollapsed THEN 0 ELSE left0,
                  IF yCollapsed THEN 0 ELSE top0,
                  IF xCollapsed THEN emv.width ELSE right0,
                  IF yCollapsed THEN emv.height ELSE bottom0)

findMargins(emv, lim) ==
    LET width == emv.width
        height == emv.height
        left0 == scanLeft(emv.columnMaxs, width, lim, 0)
        right0 == scanRight(emv.columnMaxs, lim, width - 1)
        top0 == scanTop(emv.rowMaxs, height, lim, 0)
        bottom0 == scanBottom(emv.rowMaxs, lim, height - 1)
        \* if (left >= width || right <= -1) { left = 0; right = 0; }
        xCollapsed == left0 >= width \/ right0 <= -1
        left1 == IF xCollapsed THEN 0 ELSE left0
        right1 == IF xCollapsed THEN 0 ELSE right0
        \* if (top >= height || bottom <= -1) { top = 0; bottom = 0; }
        yCollapsed == top0 >= height \/ bottom0 <= -1
        top1 == IF yCollapsed THEN 0 ELSE top0
        bottom1 == IF yCollapsed THEN 0 ELSE bottom0
        \* "Ensure valid rectangle"
        left2 == IF left1 >= width THEN width ELSE left1
        right2 == IF right1 <= -1 THEN 0 ELSE right1
        top2 == IF top1 >= height THEN height ELSE top1
        bottom2 == IF bottom1 <= -1 THEN 0 ELSE bottom1
    IN  Rectangle(left2, top2, right2, bottom2)

----------------------------------------------------------------------------
(* EdgeFinder (EdgeFinder.js): the fragment shader, processImage, updateEdgeMaxValues *)

\* An image is [width, height, pix], pix the row-major pixel buffer:
\* pix[y * width + x] is the colour <<r, g, b, a>> of pixel (x, y).

Abs(d) == IF d < 0 THEN -d ELSE d

\* a wrapping that repeats the texture instead of clamping to its edge
Clamp_repeat(v, lo, hi) == lo + ((v - lo) % (hi - lo + 1))

Clamp(v, lo, hi) == IF v < lo THEN lo ELSE IF v > hi THEN hi ELSE v

\* texture2D(u_texture, ...) at the centre of texel (x, y) with CLAMP_TO_EDGE wrapping
texture2D(img, x, y) ==
    img.pix[Clamp(y, 0, img.height - 1) * img.width + Clamp(x, 0, img.width - 1)]

\* a variant of chebyshevDistance with a slip: the last channel alone
chebyshevDistance_alpha(a, b) == Abs(a[4] - b[4])

\* float chebyshevDistance(vec4 a, vec4 b), in units of 1/255
chebyshevDistance(a, b) ==
    LET diff == <<Abs(a[1] - b[1]), Abs(a[2] - b[2]), Abs(a[3] - b[3]), Abs(a[4] - b[4])>>
    IN  Max2(Max2(Max2(diff[1], diff[2]), diff[3]), diff[4])

\* a shader that compares with the immediate neighbours whatever the mode
fragment_neighbor(img, edgeMode, x, y) ==
    LET current == texture2D(img, x, y)
    IN  <<chebyshevDistance(current, texture2D(img, x, y - 1)),
          chebyshevDistance(current, texture2D(img, x, y + 1)),
          chebyshevDistance(current, texture2D(img, x - 1, y)),
          chebyshevDistance(current, texture2D(img, x + 1, y))>>

\* a shader that compares with the pixels of the image border whatever the mode
fragment_edge(img, edgeMode, x, y) ==
    LET current == texture2D(img, x, y)
    IN  <<chebyshevDistance(current, texture2D(img, x, 0)),
          chebyshevDistance(current, texture2D(img, x, img.height - 1)),
          chebyshevDistance(current, texture2D(img, 0, y)),
          chebyshevDistance(current, texture2D(img, img.width - 1, y))>>

\* main() of the fragment shader for the fragment of pixel (x, y):
\* gl_FragColor = vec4(distUp, distDown, distLeft, distRight)
fragment(img, edgeMode, x, y) ==
    LET current == texture2D(img, x, y)
        up == IF edgeMode THEN texture2D(img, x, 0) ELSE texture2D(img, x, y - 1)
        down == IF edgeMode THEN texture2D(img, x, img.height - 1) ELSE texture2D(img, x, y + 1)
        left == IF edgeMode THEN texture2D(img, 0, y) ELSE texture2D(img, x - 1, y)
        right == IF edgeMode THEN texture2D(img, img.width - 1, y) ELSE texture2D(img, x + 1, y)
    IN  <<chebyshevDistance(current, up), chebyshevDistance(current, down),
          chebyshevDistance(current, left), chebyshevDistance(current, right)>>

\* gl.drawArrays followed by gl.readPixels: the RGBA bytes of every fragment, row-major
readPixels(img, edgeMode, width, height) ==
    [i \in 0..(width * height - 1) |-> fragment(img, edgeMode, i % width, i \div width)]

\* pixelsView.getUint32(byteOffset, true): the four bytes of a pixel, little-endian
getUint32(pixels, pixelIndex) ==
    LET bytes == pixels[pixelIndex]
    IN  PackRGBA(bytes[1], bytes[2], bytes[3], bytes[4])

\* the loops of updateEdgeMaxValues from pixel pixelIndex on (y outer, x inner)
RECURSIVE updateFrom(_, _, _, _, _)
updateFrom(emv, pixels, width, height, pixelIndex) ==
    IF pixelIndex >= width * height THEN emv
    ELSE updateFrom(considerSample(emv, pixelIndex % width, pixelIndex \div width,
                                   getUint32(pixels, pixelIndex)),
                    pixels, width, height, pixelIndex + 1)

updateEdgeMaxValues(emv, pixels, width, height) == updateFrom(emv, pixels, width, height, 0)

\* a processImage that keeps the maxima of the previous pass
processImage_noclear(emv, img, edgeMode) ==
    updateEdgeMaxValues(emv, readPixels(img, edgeMode, emv.width, emv.height),
                        emv.width, emv.height)

\* EdgeFinder.processImage(imageBitmap) on an EdgeFinder of the size of emv
processImage(emv, img, edgeMode) ==
    updateEdgeMaxValues(clear(emv), readPixels(img, edgeMode, emv.width, emv.height),
                        emv.width, emv.height)

----------------------------------------------------------------------------
(* cropExpand and getTopLeftPixelColor (util.js), on a 2D canvas *)

\* A source is [naturalWidth, naturalHeight, videoWidth, videoHeight, width, height,
\* pixelWidth, pix]: the size properties the code reads (0 for a property that is
\* undefined or 0) and the row-major pixels, pixelWidth to a row.  Pixel values are
\* those a canvas reports for the image; a fully transparent pixel is <<0, 0, 0, 0>>.

NoColor == <<>>

Transparent == <<0, 0, 0, 0>>

NoCanvas == [kind |-> "none"]

NoResult == [kind |-> "none"]

\* a || b || c on numbers: the first that is not 0
Or3(a, b, c) == IF a # 0 THEN a ELSE IF b # 0 THEN b ELSE c

\* rounded integer division
RoundDiv(n, d) == (2 * n + d) \div (2 * d)

\* source-over compositing of colour s onto colour d, 8 bits a channel
SourceOver(s, d) ==
    LET alpha == s[4] + RoundDiv(d[4] * (255 - s[4]), 255)
        Chan(c) == RoundDiv(s[c] * s[4] * 255 + d[c] * d[4] * (255 - s[4]), alpha * 255)
    IN  IF alpha = 0 THEN Transparent
        ELSE <<Chan(1), Chan(2), Chan(3), alpha>>

\* new OffscreenCanvas(w, h) / document.createElement('canvas'): transparent black
createCanvas(w, h) ==
    [kind |-> "canvas", width |-> w, height |-> h,
     pix |-> [i \in 0..(w * h - 1) |-> Transparent]]

\* the pixels of cv inside the rectangle (x, y, w, h)
InRect(cv, i, x, y, w, h) ==
    /\ i % cv.width >= x
    /\ i % cv.width < x + w
    /\ i \div cv.width >= y
    /\ i \div cv.width < y + h

\* ctx.fillStyle = color; ctx.fillRect(x, y, w, h)
fillRect(cv, color, x, y, w, h) ==
    [cv EXCEPT !.pix = [i \in DOMAIN cv.pix |->
        IF InRect(cv, i, x, y, w, h) THEN SourceOver(color, cv.pix[i]) ELSE cv.pix[i]]]

\* ctx.clearRect(x, y, w, h)
clearRect(cv, x, y, w, h) ==
    [cv EXCEPT !.pix = [i \in DOMAIN cv.pix |->
        IF InRect(cv, i, x, y, w, h) THEN Transparent ELSE cv.pix[i]]]

\* ctx.drawImage(src, sx, sy, w, h, dx, dy, w, h): no scaling, source-over
drawImage(cv, src, sx, sy, w, h, dx, dy) ==
    [cv EXCEPT !.pix = [i \in DOMAIN cv.pix |->
        IF InRect(cv, i, dx, dy, w, h)
        THEN SourceOver(src.pix[((i \div cv.width) - dy + sy) * src.pixelWidth
                                + ((i % cv.width) - dx + sx)], cv.pix[i])
        ELSE cv.pix[i]]]

\* ctx.getImageData(0, 0, width, height)
getImageData(cv) == [kind |-> "ImageData", width |-> cv.width, height |-> cv.height, data |-> cv.pix]

\* value.toString(16) of a byte, as a sequence of hexadecimal digits
toString16(value) == IF value < 16 THEN <<value>> ELSE <<value \div 16, value % 16>>

\* str.padStart(2, '0')
padStart2(str) == IF Len(str) < 2 THEN <<0>> \o str ELSE str

\* a toHex that does not pad a single digit
toHex_nopad(value) == toString16(value)

\* const toHex = (value) => value.toString(16).padStart(2, '0')
toHex(value) == padStart2(toString16(value))

\* the CSS colour a '#' string of hexadecimal digits denotes when it is assigned to
\* fillStyle: #rrggbbaa, #rrggbb, #rgba or #rgb; any other length is not a colour
\* and leaves fillStyle at its initial value, opaque black
parseColor(digits) ==
    CASE Len(digits) = 8 -> <<16 * digits[1] + digits[2], 16 * digits[3] + digits[4],
                              16 * digits[5] + digits[6], 16 * digits[7] + digits[8]>>
      [] Len(digits) = 6 -> <<16 * digits[1] + digits[2], 16 * digits[3] + digits[4],
                              16 * digits[5] + digits[6], 255>>
      [] Len(digits) = 4 -> <<17 * digits[1], 17 * digits[2], 17 * digits[3], 17 * digits[4]>>
      [] Len(digits) = 3 -> <<17 * digits[1], 17 * digits[2], 17 * digits[3], 255>>
      [] OTHER -> <<0, 0, 0, 255>>

\* getTopLeftPixelColor(source): the digits of the string `#${r}${g}${b}${a}`
getTopLeftPixelColor(src) ==
    LET cv == drawImage(createCanvas(1, 1), src, 0, 0, 1, 1, 0, 0)
        imageData == getImageData(cv)
        rgba == imageData.data[0]
    IN  toHex(rgba[1]) \o toHex(rgba[2]) \o toHex(rgba[3]) \o toHex(rgba[4])

sourceWidthOf(src) == Or3(src.naturalWidth, src.videoWidth, src.width)

sourceHeightOf(src) == Or3(src.naturalHeight, src.videoHeight, src.height)

\* a validation that leaves out the check of the crop dimensions
validate_nocropcheck(src, rect) ==
    IF sourceWidthOf(src) = 0 \/ sourceHeightOf(src) = 0
    THEN [kind |-> "error", message |-> "Could not determine source image dimensions"]
    ELSE NoResult

\* the two checks at the head of cropExpand: the error thrown, or NoResult
validate(src, rect) ==
    IF sourceWidthOf(src) = 0 \/ sourceHeightOf(src) = 0
    THEN [kind |-> "error", message |-> "Could not determine source image dimensions"]
    ELSE IF getWidth(rect) <= 0 \/ getHeight(rect) <= 0
    THEN [kind |-> "error", message |-> "Crop rectangle must have positive width and height"]
    ELSE NoResult

\* "Determine padding color" and "Fill the entire canvas with the padding color"
fillPadding(cv, src, padding) ==
    LET fillColor == IF padding = NoColor THEN parseColor(getTopLeftPixelColor(src))
                     ELSE padding
    IN  fillRect(cv, fillColor, 0, 0, cv.width, cv.height)

\* a drawing of the visible part that leaves out clearRect
drawVisible_noclear(cv, src, rect) ==
    LET sourceRect == Rectangle(0, 0, sourceWidthOf(src), sourceHeightOf(src))
        intersection == intersect(rect, sourceRect)
    IN  IF ~isEmpty(intersection)
        THEN drawImage(cv, src, intersection.left, intersection.top,
                       getWidth(intersection), getHeight(intersection),
                       intersection.left - rect.left, intersection.top - rect.top)
        ELSE cv

\* the intersection with the source bounds is cleared and drawn
drawVisible(cv, src, rect) ==
    LET sourceRect == Rectangle(0, 0, sourceWidthOf(src), sourceHeightOf(src))
        intersection == intersect(rect, sourceRect)
        srcX == intersection.left
        srcY == intersection.top
        srcWidth == getWidth(intersection)
        srcHeight == getHeight(intersection)
        destX == intersection.left - rect.left
        destY == intersection.top - rect.top
    IN  IF ~isEmpty(intersection)
        THEN drawImage(clearRect(cv, destX, destY, srcWidth, srcHeight),
                       src, srcX, srcY, srcWidth, srcHeight, destX, destY)
        ELSE cv

----------------------------------------------------------------------------
(* SlyceApp (ui.js): the page's controller *)

\* The app object is [sourceImage, edgeFinder, currentMargins, limitSlider,
\* marginSlider, cropOverlay, queried, crop].  A property that is null or an object
\* is <<>> or <<object>>.  An EdgeFinder is [width, height, edgeMaxValues, pass,
\* bitmap]: pass is "none" from the constructor until processImage has returned and
\* "complete" afterwards, bitmap the image it was given.  queried is the pass of the
\* EdgeFinder the last findMargins call read, crop the last cropExpand call of
\* showCropDialog with what it returned or threw.  WebGL is taken to be available,
\* so the EdgeFinder constructor does not throw.

\* new EdgeFinder(width, height, {useOffscreen: false})
newEdgeFinder(width, height) ==
    [width |-> width, height |-> height,
     edgeMaxValues |-> EdgeMaxValues(width, height),
     pass |-> "none", bitmap |-> <<>>]

\* edgeFinder.processImage(imageBitmap) on the EdgeFinder object; neighbor mode
processBitmap(finder, imageBitmap) ==
    [finder EXCEPT !.edgeMaxValues = processImage(@, imageBitmap, FALSE),
                   !.pass = "complete",
                   !.bitmap = <<imageBitmap>>]

\* the canvas processImageWithEdgeFinder draws the source image on, which
\* createImageBitmap turns into the bitmap
canvasOf(img) ==
    [width |-> img.naturalWidth, height |-> img.naturalHeight, pix |-> img.pix]

\* a grow applied to the rectangle itself instead of a clone
growInPlace(rect, marginSize) ==
    [margins |-> grow(rect, marginSize), cropRect |-> grow(rect, marginSize)]

\* margins.clone().grow(marginSize): the rectangle the call was made on, as it is
\* after the call, and the rectangle the call produced
cloneGrow(rect, marginSize) ==
    [margins |-> rect, cropRect |-> grow(clone(rect), marginSize)]

\* updateCropOverlay(margins, marginSize): margins after the call and the rectangle
\* the overlay shows, if any
updateCropOverlay(rect, marginSize) ==
    IF isEmpty(rect)
    THEN [margins |-> rect, overlay |-> <<>>]
    ELSE LET grown == cloneGrow(rect, marginSize)
         IN  [margins |-> grown.margins, overlay |-> <<grown.cropRect>>]

\* updateMargins()
updateMargins(a) ==
    IF a.edgeFinder = <<>>
    THEN a
    ELSE LET lim == a.limitSlider
             marginSize == a.marginSlider
             emv == a.edgeFinder[1].edgeMaxValues
             found == findMargins(emv, lim)
             shown == updateCropOverlay(found, marginSize)
         IN  [a EXCEPT !.currentMargins = <<shown.margins>>,
                       !.cropOverlay = shown.overlay,
                       !.queried = <<a.edgeFinder[1].pass>>]

\* a continuation that updates the margins before the pass has run
resumeProcessing_marginsfirst(a, imageBitmap) ==
    LET fresh == newEdgeFinder(imageBitmap.width, imageBitmap.height)
        early == updateMargins([a EXCEPT !.edgeFinder = <<fresh>>])
    IN  [early EXCEPT !.edgeFinder = <<processBitmap(fresh, imageBitmap)>>]

\* processImageWithEdgeFinder after its await: the old EdgeFinder is disposed of, a
\* new one is constructed and processes the bitmap, the margins are updated
resumeProcessing(a, imageBitmap) ==
    LET fresh == newEdgeFinder(imageBitmap.width, imageBitmap.height)
    IN  updateMargins([a EXCEPT !.edgeFinder = <<processBitmap(fresh, imageBitmap)>>])

\* cropExpand(source, cropRect, {paddingColor}): the ImageData, or the error thrown
cropExpand(src, rect, padding) ==
    LET thrown == validate(src, rect)
    IN  IF thrown.kind = "error"
        THEN thrown
        ELSE getImageData(drawVisible(
                 fillPadding(createCanvas(getWidth(rect), getHeight(rect)), src, padding),
                 src, rect))

\* showCropDialog() up to the cropExpand call; its catch keeps the error
showCropDialog(a) ==
    IF a.currentMargins = <<>> \/ isEmpty(a.currentMargins[1])
    THEN [a EXCEPT !.crop = <<>>]
    ELSE LET marginSize == a.marginSlider
             grown == cloneGrow(a.currentMargins[1], marginSize)
         IN  [a EXCEPT !.currentMargins = <<grown.margins>>,
                       !.crop = <<[cropRect |-> grown.cropRect,
                                   imageData |-> cropExpand(a.sourceImage, grown.cropRect,
                                                            NoColor)]>>]

----------------------------------------------------------------------------
(* ScrollZoom (EdgeFinder.js): pointer handling and click detection *)

\* The ScrollZoom object is [pointerState, singlePointerDownEvent]: pointerState a
\* function from the pointer ids in the Map to their last event,
\* singlePointerDownEvent <<>> for null or <<event>>.  An event is [type, pointerId,
\* pointerType, button, timeStamp].  The view matrix, which the click detection
\* never reads, is left out, and with it the long-drag branch of #pointerMove.

\* e.timeStamp - this.singlePointerDownEvent.timeStamp < 200
ClickTime == 200

nonPrimaryMouseButtonPointerEvent(e) == e.pointerType = "mouse" /\ e.button # 0

\* new ScrollZoom(view)
newScrollZoom == [pointerState |-> <<>>, singlePointerDownEvent |-> <<>>]

\* this.pointerState.set(id, {event: e})
mapSet(pointerState, id, e) ==
    [k \in DOMAIN pointerState \cup {id} |-> IF k = id THEN e ELSE pointerState[k]]

\* this.pointerState.delete(id)
mapDelete(pointerState, id) ==
    [k \in DOMAIN pointerState \ {id} |-> pointerState[k]]

\* #pointerDown(e); accepted is what dragFilter(e) returns, TRUE without a dragFilter
pointerDown(z, e, accepted) ==
    IF nonPrimaryMouseButtonPointerEvent(e)
    THEN z
    ELSE LET first == DOMAIN z.pointerState = {}
             noted == IF first THEN [z EXCEPT !.singlePointerDownEvent = <<e>>] ELSE z
         IN  IF first /\ ~accepted
             THEN noted
             ELSE [noted EXCEPT !.pointerState = mapSet(@, e.pointerId, e)]

\* #pointerMove(e)
pointerMove(z, e) ==
    IF e.pointerId \notin DOMAIN z.pointerState
    THEN z
    ELSE [z EXCEPT !.pointerState = mapSet(@, e.pointerId, e)]

\* #pointerCancel(e)
pointerCancel(z, e) ==
    [z EXCEPT !.pointerState = mapDelete(@, e.pointerId),
              !.singlePointerDownEvent = <<>>]

\* a #pointerUp that does not look at the size of pointerState
pointerUp_anysize(z, e) ==
    LET remaining == mapDelete(z.pointerState, e.pointerId)
        click == /\ z.singlePointerDownEvent # <<>>
                 /\ e.timeStamp - z.singlePointerDownEvent[1].timeStamp < ClickTime
    IN  [zoom |-> [z EXCEPT !.pointerState = remaining, !.singlePointerDownEvent = <<>>],
         clicked |-> IF click THEN z.singlePointerDownEvent ELSE <<>>]

\* #pointerUp(e) with a clickHandler installed: the object afterwards, and the
\* event clickHandler was called with, if it was called
pointerUp(z, e) ==
    LET remaining == mapDelete(z.pointerState, e.pointerId)
        click == /\ DOMAIN remaining = {}
                 /\ z.singlePointerDownEvent # <<>>
                 /\ e.timeStamp - z.singlePointerDownEvent[1].timeStamp < ClickTime
    IN  [zoom |-> [z EXCEPT !.pointerState = remaining, !.singlePointerDownEvent = <<>>],
         clicked |-> IF click THEN z.singlePointerDownEvent ELSE <<>>]

\* #wheel(e)
wheel(z, e) == [z EXCEPT !.singlePointerDownEvent = <<>>]

----------------------------------------------------------------------------
(* SpecMargins: findMargins applied to EdgeMaxValues of arbitrary contents *)

\* channel values the aggregates are drawn from
ChanVals == {0, 255}

\* limits passed to findMargins: below, inside and above the 0..255 range
Limits == {-1, 0, 254, 255, 256}

\* the state the cropExpand part keeps while it is not running
CropIdle ==
    /\ source = Null
    /\ cropRect = Null
    /\ paddingColor = NoColor
    /\ canvas = NoCanvas
    /\ result = NoResult
    /\ sampled = FALSE

\* the state while no Rectangle is under test
RectIdle ==
    /\ thisRect = Null
    /\ newRect = Null
    /\ call = Null

\* No SlyceApp has been constructed.
AppIdle ==
    /\ app = Null
    /\ pending = Null

\* No ScrollZoom has been constructed.
ZoomIdle ==
    /\ scrollZoom = Null
    /\ env = Null
    /\ lastEvent = Null

InitMargins ==
    /\ \E w \in 0..MaxW, h \in 0..MaxH, other \in ChanVals :
         \E cl \in [0..(w - 1) -> ChanVals], cr \in [0..(w - 1) -> ChanVals],
            ru \in [0..(h - 1) -> ChanVals], rd \in [0..(h - 1) -> ChanVals] :
              edgeMaxValues =
                  [width |-> w, height |-> h,
                   rowMaxs |-> [y \in 0..(h - 1) |-> PackRGBA(ru[y], rd[y], other, other)],
                   columnMaxs |-> [x \in 0..(w - 1) |-> PackRGBA(other, other, cl[x], cr[x])]]
    /\ image = Null
    /\ diffToEdge = FALSE
    /\ limit = Null
    /\ margins = Null
    /\ edgeMap = <<>>
    /\ folded = {}
    /\ CropIdle
    /\ RectIdle
    /\ AppIdle
    /\ ZoomIdle
    /\ pc = "aggregated"

\* a caller asks for the margins at some limit
FindMargins(lim) ==
    /\ pc \in {"aggregated", "queried"}
    /\ limit' = lim
    /\ margins' = findMargins(edgeMaxValues, lim)
    /\ pc' = "queried"
    /\ UNCHANGED <<edgeMaxValues, image, diffToEdge, edgeMap, folded, cropVars, rectVars, appVars, zoomVars>>

NextMargins == \E lim \in Limits : FindMargins(lim)

SpecMargins == InitMargins /\ [][NextMargins]_vars

----------------------------------------------------------------------------
(* SpecEdges: an image is processed by an EdgeFinder of its size, then queried *)

Gray == <<128, 128, 128, 255>>

Ink == <<0, 64, 128, 255>>

Palette == {Gray, Ink}

\* limits passed to findMargins after edge detection: the distance between the
\* two colours is 128
EdgeLimits == {0, 10, 128}

\* every image over the palette with sides of at most MaxSide and at most MaxPixels
\* pixels; a side of 0 gives an image without pixels
Sizes == {wh \in (0..MaxSide) \X (0..MaxSide) : wh[1] * wh[2] <= MaxPixels}

Images ==
    UNION {{[width |-> wh[1], height |-> wh[2], pix |-> p] :
              p \in [0..(wh[1] * wh[2] - 1) -> Palette]} : wh \in Sizes}

\* new EdgeFinder(image width, image height, {diffToEdge})
InitEdges ==
    /\ image \in Images
    /\ diffToEdge \in BOOLEAN
    /\ edgeMaxValues = EdgeMaxValues(image.width, image.height)
    /\ limit = Null
    /\ margins = Null
    /\ edgeMap = <<>>
    /\ folded = {}
    /\ CropIdle
    /\ RectIdle
    /\ AppIdle
    /\ ZoomIdle
    /\ pc = "constructed"

\* edgeFinder.processImage(imageBitmap)
ProcessImage ==
    /\ pc = "constructed"
    /\ edgeMaxValues' = processImage(edgeMaxValues, image, diffToEdge)
    /\ edgeMap' = readPixels(image, diffToEdge, edgeMaxValues.width, edgeMaxValues.height)
    /\ folded' = DOMAIN edgeMap'
    /\ pc' = "aggregated"
    /\ UNCHANGED <<image, diffToEdge, limit, margins, cropVars, rectVars, appVars, zoomVars>>

NextEdges ==
    \/ ProcessImage
    \/ \E lim \in EdgeLimits : FindMargins(lim)

SpecEdges == InitEdges /\ [][NextEdges]_vars

----------------------------------------------------------------------------
(* SpecCrop: one call of cropExpand(source, cropRect, {paddingColor}), phase by phase *)

OpaqueRed == <<255, 0, 0, 255>>

SemiGreen == <<0, 255, 0, 128>>

OpaqueBlue == <<0, 0, 255, 255>>

SemiBlue == <<0, 0, 255, 64>>

SourcePalette == <<OpaqueRed, SemiGreen, Transparent>>

\* the pixels of a w by h source: the palette along the rows, starting at colour k
PatternPixels(w, h, k) ==
    [i \in 0..(w * h - 1) |-> SourcePalette[(((i % w) + 2 * (i \div w) + k) % 3) + 1]]

\* a loaded HTMLImageElement shown at its natural size
LoadedImage(w, h, k) ==
    [naturalWidth |-> w, naturalHeight |-> h, videoWidth |-> 0, videoHeight |-> 0,
     width |-> w, height |-> h, pixelWidth |-> w, pix |-> PatternPixels(w, h, k)]

\* an ImageBitmap or a canvas, which have no naturalWidth; also an image that has
\* not loaded, all of whose sizes are 0
BitmapOrCanvas(w, h, k) ==
    [naturalWidth |-> 0, naturalHeight |-> 0, videoWidth |-> 0, videoHeight |-> 0,
     width |-> w, height |-> h, pixelWidth |-> w,
     pix |-> IF w = 0 THEN <<>> ELSE PatternPixels(w, h, k)]

Sources ==
    { LoadedImage(w, h, k) : w \in 1..CropMax, h \in 1..CropMax, k \in 0..2 }
    \cup { BitmapOrCanvas(w, h, 1) : w \in 0..CropMax, h \in 0..CropMax }

CropCoords == (-1)..(CropMax + 1)

CropRects == { Rectangle(l, t, r, b) : l \in CropCoords, t \in CropCoords,
                                       r \in CropCoords, b \in CropCoords }

\* paddingColor: null, or a colour given as a non-empty CSS string (here its value)
PaddingColors == {NoColor, OpaqueBlue, SemiBlue}

EdgesIdle ==
    /\ edgeMaxValues = Null
    /\ image = Null
    /\ diffToEdge = FALSE
    /\ limit = Null
    /\ margins = Null
    /\ edgeMap = <<>>
    /\ folded = {}

InitCrop ==
    /\ source \in Sources
    /\ cropRect \in CropRects
    /\ paddingColor \in PaddingColors
    /\ canvas = NoCanvas
    /\ result = NoResult
    /\ sampled = FALSE
    /\ pc = "called"
    /\ EdgesIdle
    /\ RectIdle
    /\ AppIdle
    /\ ZoomIdle

\* util.js 141-155: the two checks; an error ends the call
Validate ==
    /\ pc = "called"
    /\ LET thrown == validate(source, cropRect)
       IN  IF thrown.kind = "error"
           THEN result' = thrown /\ pc' = "thrown"
           ELSE result' = result /\ pc' = "validated"
    /\ UNCHANGED <<edgeVars, rectVars, appVars, zoomVars, source, cropRect, paddingColor, canvas, sampled>>

\* util.js 157-167: the canvas of the crop's size
CreateCanvas ==
    /\ pc = "validated"
    /\ canvas' = createCanvas(getWidth(cropRect), getHeight(cropRect))
    /\ pc' = "created"
    /\ UNCHANGED <<edgeVars, rectVars, appVars, zoomVars, source, cropRect, paddingColor, result, sampled>>

\* util.js 169-182: the canvas is filled with the padding colour
FillPadding ==
    /\ pc = "created"
    /\ canvas' = fillPadding(canvas, source, paddingColor)
    /\ sampled' = (paddingColor = NoColor)
    /\ pc' = "filled"
    /\ UNCHANGED <<edgeVars, rectVars, appVars, zoomVars, source, cropRect, paddingColor, result>>

\* util.js 184-209: the visible part of the source is cleared and drawn
DrawVisible ==
    /\ pc = "filled"
    /\ canvas' = drawVisible(canvas, source, cropRect)
    /\ pc' = "drawn"
    /\ UNCHANGED <<edgeVars, rectVars, appVars, zoomVars, source, cropRect, paddingColor, result, sampled>>

\* util.js 211-212: the pixels of the canvas are returned
ReturnImageData ==
    /\ pc = "drawn"
    /\ result' = getImageData(canvas)
    /\ pc' = "returned"
    /\ UNCHANGED <<edgeVars, rectVars, appVars, zoomVars, source, cropRect, paddingColor, canvas, sampled>>

NextCrop ==
    \/ Validate
    \/ CreateCanvas
    \/ FillPadding
    \/ DrawVisible
    \/ ReturnImageData

SpecCrop == InitCrop /\ [][NextCrop]_vars

----------------------------------------------------------------------------
(* SpecRect: a Rectangle is constructed from any four integers and called *)

RectCoords == (-1)..RectMax

Rects == { Rectangle(l, t, r, b) : l \in RectCoords, t \in RectCoords,
                                   r \in RectCoords, b \in RectCoords }

\* amounts passed to grow
GrowAmounts == (-2)..2

\* new Rectangle(l, t, r, b)
InitRect ==
    /\ \E l \in RectCoords, t \in RectCoords, r \in RectCoords, b \in RectCoords :
          /\ thisRect = Rectangle(l, t, r, b)
          /\ newRect = thisRect
          /\ call = [op |-> "new", args |-> <<l, t, r, b>>, ret |-> thisRect]
    /\ EdgesIdle
    /\ CropIdle
    /\ AppIdle
    /\ ZoomIdle
    /\ pc = "rect"

\* rect.isEmpty()
IsEmptyCall ==
    /\ pc = "rect"
    /\ call.op = "new"
    /\ call' = [op |-> "isEmpty", args |-> <<>>, ret |-> isEmpty(thisRect)]
    /\ UNCHANGED <<edgeVars, cropVars, appVars, zoomVars, thisRect, newRect, pc>>

\* rect.contains(x, y)
ContainsCall(x, y) ==
    /\ pc = "rect"
    /\ call.op = "new"
    /\ call' = [op |-> "contains", args |-> <<x, y>>, ret |-> contains(thisRect, x, y)]
    /\ UNCHANGED <<edgeVars, cropVars, appVars, zoomVars, thisRect, newRect, pc>>

\* rect.intersect(other): a new Rectangle is returned
IntersectCall(other) ==
    /\ pc = "rect"
    /\ call.op = "new"
    /\ call' = [op |-> "intersect", args |-> <<other>>, ret |-> intersect(thisRect, other)]
    /\ UNCHANGED <<edgeVars, cropVars, appVars, zoomVars, thisRect, newRect, pc>>

\* rect.grow(amount): the rectangle is changed in place and returned
GrowCall(amount) ==
    /\ pc = "rect"
    /\ call.op = "new"
    /\ thisRect' = grow(thisRect, amount)
    /\ call' = [op |-> "grow", args |-> <<amount>>, ret |-> thisRect']
    /\ UNCHANGED <<edgeVars, cropVars, appVars, zoomVars, newRect, pc>>

\* rect.grow(n).grow(-n): the second call of the chain
GrowBackCall ==
    /\ pc = "rect"
    /\ call.op = "grow"
    /\ thisRect' = grow(thisRect, -call.args[1])
    /\ call' = [op |-> "growBack", args |-> <<-call.args[1]>>, ret |-> thisRect']
    /\ UNCHANGED <<edgeVars, cropVars, appVars, zoomVars, newRect, pc>>

NextRect ==
    \/ IsEmptyCall
    \/ \E x \in RectCoords, y \in RectCoords : ContainsCall(x, y)
    \/ \E other \in Rects : IntersectCall(other)
    \/ \E amount \in GrowAmounts : GrowCall(amount)
    \/ GrowBackCall

SpecRect == InitRect /\ [][NextRect]_vars

----------------------------------------------------------------------------
(* SpecFold: the samples of an edge map are given to considerSample in any order, *)
(* any number of times, or by one pass of updateEdgeMaxValues                      *)

\* samples <<up, down, left, right>>: every channel takes small and large values,
\* the top byte values of 128 and above
SampleVals == { <<0, 0, 0, 0>>, <<255, 0, 1, 128>>, <<1, 128, 255, 0>>, <<128, 255, 0, 255>> }

\* new EdgeMaxValues(w, 2), and an edge map of that size
InitFold ==
    /\ \E w \in 1..FoldW :
          /\ edgeMaxValues = EdgeMaxValues(w, 2)
          /\ edgeMap \in [0..(w * 2 - 1) -> SampleVals]
    /\ folded = {}
    /\ image = Null
    /\ diffToEdge = FALSE
    /\ limit = Null
    /\ margins = Null
    /\ CropIdle
    /\ RectIdle
    /\ AppIdle
    /\ ZoomIdle
    /\ pc = "cleared"

\* edgeMaxValues.considerSample(x, y, packedPixel) for the pixel of index pixelIndex
ConsiderSample(pixelIndex) ==
    /\ pc \in {"cleared", "folding"}
    /\ edgeMaxValues' = considerSample(edgeMaxValues, pixelIndex % edgeMaxValues.width,
                                       pixelIndex \div edgeMaxValues.width,
                                       getUint32(edgeMap, pixelIndex))
    /\ folded' = folded \cup {pixelIndex}
    /\ pc' = "folding"
    /\ UNCHANGED <<image, diffToEdge, limit, margins, edgeMap, cropVars, rectVars, appVars, zoomVars>>

\* the loops of EdgeFinder.updateEdgeMaxValues over the whole edge map
UpdateEdgeMaxValues ==
    /\ pc = "cleared"
    /\ edgeMaxValues' = updateEdgeMaxValues(edgeMaxValues, edgeMap,
                                            edgeMaxValues.width, edgeMaxValues.height)
    /\ folded' = DOMAIN edgeMap
    /\ pc' = "aggregated"
    /\ UNCHANGED <<image, diffToEdge, limit, margins, edgeMap, cropVars, rectVars, appVars, zoomVars>>

\* edgeMaxValues.clear()
Clear ==
    /\ pc \in {"folding", "aggregated"}
    /\ edgeMaxValues' = clear(edgeMaxValues)
    /\ folded' = {}
    /\ pc' = "cleared"
    /\ UNCHANGED <<image, diffToEdge, limit, margins, edgeMap, cropVars, rectVars, appVars, zoomVars>>

NextFold ==
    \/ \E pixelIndex \in DOMAIN edgeMap : ConsiderSample(pixelIndex)
    \/ UpdateEdgeMaxValues
    \/ Clear

SpecFold == InitFold /\ [][NextFold]_vars

----------------------------------------------------------------------------
(* SpecReuse: one EdgeFinder processes one image after another *)

\* the images of w by h pixels over the palette
ImagesOfSize(w, h) ==
    {[width |-> w, height |-> h, pix |-> p] : p \in [0..(w * h - 1) -> Palette]}

\* new EdgeFinder(w, h, {diffToEdge})
InitReuse ==
    /\ \E w \in 1..ReuseW, h \in 1..2 : edgeMaxValues = EdgeMaxValues(w, h)
    /\ diffToEdge \in BOOLEAN
    /\ image = Null
    /\ limit = Null
    /\ margins = Null
    /\ edgeMap = <<>>
    /\ folded = {}
    /\ CropIdle
    /\ RectIdle
    /\ AppIdle
    /\ ZoomIdle
    /\ pc = "constructed"

\* edgeFinder.processImage(img), the first or a later one; pc tells whether the
\* pass found maxima of an earlier image in the arrays
ProcessNextImage(img) ==
    /\ pc \in {"constructed", "aggregated", "rebuilt"}
    /\ edgeMaxValues' = processImage(edgeMaxValues, img, diffToEdge)
    /\ image' = img
    /\ edgeMap' = readPixels(img, diffToEdge, edgeMaxValues.width, edgeMaxValues.height)
    /\ folded' = DOMAIN edgeMap'
    /\ pc' = IF edgeMaxValues = clear(edgeMaxValues) THEN "aggregated" ELSE "rebuilt"
    /\ UNCHANGED <<diffToEdge, limit, margins, cropVars, rectVars, appVars, zoomVars>>

NextReuse ==
    \E img \in ImagesOfSize(edgeMaxValues.width, edgeMaxValues.height) : ProcessNextImage(img)

SpecReuse == InitReuse /\ [][NextReuse]_vars

----------------------------------------------------------------------------
(* SpecUI: the page with its sliders, image loads and pending bitmaps *)

\* pending invocations of processImageWithEdgeFinder at any time
MaxPending == 4

\* a loaded image of w by h gray pixels with ink at the pixel indices of inked
PageImage(w, h, inked) ==
    [naturalWidth |-> w, naturalHeight |-> h, videoWidth |-> 0, videoHeight |-> 0,
     width |-> w, height |-> h, pixelWidth |-> w,
     pix |-> [i \in 0..(w * h - 1) |-> IF i \in inked THEN Ink ELSE Gray]]

\* a dot in the middle of 3 by 3, a plain 2 by 2, a dot off the middle of 4 by 3
PageImages == {PageImage(3, 3, {4}), PageImage(2, 2, {}), PageImage(4, 3, {6})}

\* values of the limit slider: below and above the distance of the two colours
LimitValues == {0, 200}

\* values of the margin slider
MarginValues == {-1, 0, 1}

\* new SlyceApp() with the page's image loaded: loadAndProcessImage has called
\* processImageWithEdgeFinder, which waits for its bitmap
InitUI ==
    /\ \E img \in PageImages, lim \in LimitValues, marginSize \in MarginValues :
         /\ app = [sourceImage |-> img, edgeFinder |-> <<>>, currentMargins |-> <<>>,
                   limitSlider |-> lim, marginSlider |-> marginSize,
                   cropOverlay |-> <<>>, queried |-> <<>>, crop |-> <<>>]
         /\ pending = <<canvasOf(img)>>
    /\ pc = "loading"
    /\ EdgesIdle
    /\ CropIdle
    /\ RectIdle
    /\ ZoomIdle

\* the 'load' event of sourceImage after loadImageFromFile has set its src: the
\* listener of initializeEventListeners and the onload handler of loadImageFromFile
\* each call processImageWithEdgeFinder if there is an EdgeFinder; each call draws
\* the image on a canvas and waits for the bitmap
ImageLoad(img) ==
    /\ pc \in {"loading", "loaded", "processed", "adjusted", "cropped", "declined"}
    /\ app.edgeFinder # <<>> => Len(pending) + 2 <= MaxPending
    /\ app' = [app EXCEPT !.sourceImage = img]
    /\ pending' = IF app.edgeFinder # <<>>
                  THEN pending \o <<canvasOf(img), canvasOf(img)>>
                  ELSE pending
    /\ pc' = "loaded"
    /\ UNCHANGED <<edgeVars, cropVars, rectVars, zoomVars>>

\* createImageBitmap of the i-th waiting invocation resolves: the rest of
\* processImageWithEdgeFinder runs
BitmapReady(i) ==
    /\ pc \in {"loading", "loaded", "processed", "adjusted", "cropped", "declined"}
    /\ i \in 1..Len(pending)
    /\ app' = resumeProcessing(app, pending[i])
    /\ pending' = [k \in 1..(Len(pending) - 1) |-> IF k < i THEN pending[k] ELSE pending[k + 1]]
    /\ pc' = "processed"
    /\ UNCHANGED <<edgeVars, cropVars, rectVars, zoomVars>>

\* the 'input' event of the limit slider
LimitInput(value) ==
    /\ pc \in {"loading", "loaded", "processed", "adjusted", "cropped", "declined"}
    /\ app' = updateMargins([app EXCEPT !.limitSlider = value])
    /\ pc' = "adjusted"
    /\ UNCHANGED <<edgeVars, cropVars, rectVars, zoomVars, pending>>

\* the 'input' event of the margin slider
MarginInput(value) ==
    /\ pc \in {"loading", "loaded", "processed", "adjusted", "cropped", "declined"}
    /\ app' = updateMargins([app EXCEPT !.marginSlider = value])
    /\ pc' = "adjusted"
    /\ UNCHANGED <<edgeVars, cropVars, rectVars, zoomVars, pending>>

\* a click on the crop button
ShowCropDialog ==
    /\ pc \in {"loading", "loaded", "processed", "adjusted", "cropped", "declined"}
    /\ app' = showCropDialog(app)
    /\ pc' = IF app'.crop = <<>> THEN "declined" ELSE "cropped"
    /\ UNCHANGED <<edgeVars, cropVars, rectVars, zoomVars, pending>>

NextUI ==
    \/ \E img \in PageImages : ImageLoad(img)
    \/ \E i \in 1..MaxPending : BitmapReady(i)
    \/ \E value \in LimitValues : LimitInput(value)
    \/ \E value \in MarginValues : MarginInput(value)
    \/ ShowCropDialog

SpecUI == InitUI /\ [][NextUI]_vars

----------------------------------------------------------------------------
(* SpecZoom: pointer and wheel events arrive at a ScrollZoom *)

\* the clock runs from 0 to MaxTime in steps of TimeStep milliseconds
TimeStep == 100

MaxTime == 300

\* pointer 0 is the mouse, the others are touches
PointerIds == {0, 1, 2}

pointerTypeOf(id) == IF id = 0 THEN "mouse" ELSE "touch"

\* the buttons a pointerdown of the pointer can report: 0 primary, 2 secondary
ButtonsOf(id) == IF id = 0 THEN {0, 2} ELSE {0}

Event(type, id, button, time) ==
    [type |-> type, pointerId |-> id, pointerType |-> pointerTypeOf(id),
     button |-> button, timeStamp |-> time]

NoEvent == [type |-> "none", pointerId |-> 0, pointerType |-> "mouse",
            button |-> 0, timeStamp |-> 0]

\* env is [down, now, since]: the pointers held down, the clock, and for each pointer
\* held down what its pointerdown met and what has happened since it:
\* [event, stateEmpty, noneDown, disturbed, twoTracked, twoDown].
\* Every handled event is noted in the records of the pointers still down.
Noted(since, e, z, down) ==
    [id \in PointerIds |->
        IF id \notin down \/ since[id] = <<>>
        THEN <<>>
        ELSE <<[since[id][1] EXCEPT
                  !.disturbed = @ \/ e.type \in {"wheel", "pointercancel", "pointerup"},
                  !.twoTracked = @ \/ Cardinality(DOMAIN z.pointerState) >= 2,
                  !.twoDown = @ \/ Cardinality(down) >= 2]>>]

\* new ScrollZoom(view), no pointer down
InitZoom ==
    /\ scrollZoom = newScrollZoom
    /\ env = [down |-> {}, now |-> 0, since |-> [id \in PointerIds |-> <<>>]]
    /\ lastEvent = [event |-> NoEvent, clicked |-> <<>>]
    /\ pc = "listening"
    /\ EdgesIdle
    /\ CropIdle
    /\ RectIdle
    /\ AppIdle

\* time passes
Tick ==
    /\ pc = "listening"
    /\ env.now + TimeStep <= MaxTime
    /\ env' = [env EXCEPT !.now = @ + TimeStep]
    /\ UNCHANGED <<edgeVars, cropVars, rectVars, appVars, scrollZoom, lastEvent, pc>>

\* a pointer that was up goes down on the view
PointerDown(id, button, accepted) ==
    /\ pc = "listening"
    /\ id \notin env.down
    /\ LET e == Event("pointerdown", id, button, env.now)
           z == pointerDown(scrollZoom, e, accepted)
           down == env.down \cup {id}
           met == [event |-> e,
                   stateEmpty |-> DOMAIN scrollZoom.pointerState = {},
                   noneDown |-> env.down = {},
                   disturbed |-> FALSE,
                   twoTracked |-> Cardinality(DOMAIN z.pointerState) >= 2,
                   twoDown |-> Cardinality(down) >= 2]
       IN  /\ scrollZoom' = z
           /\ env' = [env EXCEPT !.down = down,
                                 !.since = [Noted(env.since, e, z, down) EXCEPT ![id] = <<met>>]]
           /\ lastEvent' = [event |-> e, clicked |-> <<>>]
    /\ UNCHANGED <<edgeVars, cropVars, rectVars, appVars, pc>>

\* a pointer that is down moves
PointerMove(id) ==
    /\ pc = "listening"
    /\ id \in env.down
    /\ LET e == Event("pointermove", id, 0, env.now)
           z == pointerMove(scrollZoom, e)
       IN  /\ scrollZoom' = z
           /\ env' = [env EXCEPT !.since = Noted(env.since, e, z, env.down)]
           /\ lastEvent' = [event |-> e, clicked |-> <<>>]
    /\ UNCHANGED <<edgeVars, cropVars, rectVars, appVars, pc>>

\* a pointer that is down is cancelled
PointerCancel(id) ==
    /\ pc = "listening"
    /\ id \in env.down
    /\ LET e == Event("pointercancel", id, 0, env.now)
           z == pointerCancel(scrollZoom, e)
           down == env.down \ {id}
       IN  /\ scrollZoom' = z
           /\ env' = [env EXCEPT !.down = down, !.since = Noted(env.since, e, z, down)]
           /\ lastEvent' = [event |-> e, clicked |-> <<>>]
    /\ UNCHANGED <<edgeVars, cropVars, rectVars, appVars, pc>>

\* a pointer that is down goes up
PointerUp(id) ==
    /\ pc = "listening"
    /\ id \in env.down
    /\ LET e == Event("pointerup", id, 0, env.now)
           handled == pointerUp(scrollZoom, e)
           down == env.down \ {id}
       IN  /\ scrollZoom' = handled.zoom
           /\ env' = [env EXCEPT !.down = down,
                                 !.since = Noted(env.since, e, handled.zoom, down)]
           /\ lastEvent' = [event |-> e, clicked |-> handled.clicked]
    /\ UNCHANGED <<edgeVars, cropVars, rectVars, appVars, pc>>

\* the wheel turns over the view
Wheel ==
    /\ pc = "listening"
    /\ LET e == Event("wheel", 0, 0, env.now)
           z == wheel(scrollZoom, e)
       IN  /\ scrollZoom' = z
           /\ env' = [env EXCEPT !.since = Noted(env.since, e, z, env.down)]
           /\ lastEvent' = [event |-> e, clicked |-> <<>>]
    /\ UNCHANGED <<edgeVars, cropVars, rectVars, appVars, pc>>

NextZoom ==
    \/ Tick
    \/ \E id \in PointerIds : \E button \in ButtonsOf(id), accepted \in BOOLEAN :
          PointerDown(id, button, accepted)
    \/ \E id \in PointerIds : PointerMove(id)
    \/ \E id \in PointerIds : PointerCancel(id)
    \/ \E id \in PointerIds : PointerUp(id)
    \/ Wheel

SpecZoom == InitZoom /\ [][NextZoom]_vars

----------------------------------------------------------------------------
(* Properties of findMargins over arbitrary aggregates (SpecMargins) *)

SetMin(S) == CHOOSE m \in S : \A n \in S : m <= n

SetMax(S) == CHOOSE m \in S : \A n \in S : m >= n

\* the columns / rows whose channel maximum is strictly above lim
\* (channels of getColumnMax / getRowMax: 1 up, 2 down, 3 left, 4 right)
ColsLeft(emv, lim) == {x \in 0..(emv.width - 1) : getColumnMax(emv, x)[3] > lim}

ColsRight(emv, lim) == {x \in 0..(emv.width - 1) : getColumnMax(emv, x)[4] > lim}

RowsUp(emv, lim) == {y \in 0..(emv.height - 1) : getRowMax(emv, y)[1] > lim}

RowsDown(emv, lim) == {y \in 0..(emv.height - 1) : getRowMax(emv, y)[2] > lim}

XFound == ColsLeft(edgeMaxValues, limit) # {} /\ ColsRight(edgeMaxValues, limit) # {}

YFound == RowsUp(edgeMaxValues, limit) # {} /\ RowsDown(edgeMaxValues, limit) # {}

SpanX(r) == Max2(0, getWidth(r))

SpanY(r) == Max2(0, getHeight(r))

C7_EmptyAtTopLimit ==
    (pc = "queried" /\ limit >= 255) => margins = Rectangle(0, 0, 0, 0)

\* limit 255 with a column whose left maximum is 255 and one whose right maximum is 255
C7_Witness ==
    /\ pc = "queried"
    /\ limit = 255
    /\ \E x \in 0..(edgeMaxValues.width - 1) : getColumnMax(edgeMaxValues, x)[3] = 255
    /\ \E x \in 0..(edgeMaxValues.width - 1) : getColumnMax(edgeMaxValues, x)[4] = 255

----------------------------------------------------------------------------
(* Properties of edge detection followed by findMargins (SpecEdges) *)

Columns == 0..(edgeMaxValues.width - 1)

Rows == 0..(edgeMaxValues.height - 1)

PixelAt(img, x, y) == img.pix[y * img.width + x]

\* the pixels 4-adjacent to (x, y) inside the image
Neighbours(img, x, y) ==
    {n \in {<<x - 1, y>>, <<x + 1, y>>, <<x, y - 1>>, <<x, y + 1>>} :
        /\ n[1] \in 0..(img.width - 1)
        /\ n[2] \in 0..(img.height - 1)}

\* pixel (x, y) differs in colour from one of its four neighbours
Differs(img, x, y) ==
    \E n \in Neighbours(img, x, y) : PixelAt(img, n[1], n[2]) # PixelAt(img, x, y)

HasVariation(img) ==
    \E x \in 0..(img.width - 1), y \in 0..(img.height - 1) : Differs(img, x, y)

Uniform(img) == \A i \in DOMAIN img.pix : img.pix[i] = img.pix[0]

\* C3: every edge strength outside the rectangle findMargins returns is <= limit:
\* every column left of left or from right on, and every row above top or from
\* bottom on, has all four channel maxima <= limit.
C3_NoEdgeOutside ==
    pc = "queried" =>
        /\ \A x \in Columns :
             (x < margins.left \/ x >= margins.right) =>
                 \A c \in 1..4 : getColumnMax(edgeMaxValues, x)[c] <= limit
        /\ \A y \in Rows :
             (y < margins.top \/ y >= margins.bottom) =>
                 \A c \in 1..4 : getRowMax(edgeMaxValues, y)[c] <= limit

\* C5: at limit 0 in neighbor mode, an image with two 4-adjacent pixels of different
\* colour yields a non-empty rectangle that contains every pixel differing from one
\* of its four neighbours.
C5_EnclosesVariation ==
    (pc = "queried" /\ ~diffToEdge /\ limit = 0 /\ HasVariation(image)) =>
        /\ ~isEmpty(margins)
        /\ \A x \in Columns, y \in Rows :
             Differs(image, x, y) => contains(margins, x, y)

\* C6: for a uniform image, in either mode, every row and column maximum is 0 after
\* processImage, and findMargins at any limit >= 0 returns (0, 0, 0, 0).
C6_UniformImageEmpty ==
    (pc \in {"aggregated", "queried"} /\ Uniform(image)) =>
        /\ \A x \in Columns : getColumnMax(edgeMaxValues, x) = <<0, 0, 0, 0>>
        /\ \A y \in Rows : getRowMax(edgeMaxValues, y) = <<0, 0, 0, 0>>
        /\ (pc = "queried" /\ limit >= 0) => margins = Rectangle(0, 0, 0, 0)

\* a uniform image of at least 2 x 2 pixels, processed in border mode, queried at limit 0
C6_Witness ==
    /\ pc = "queried"
    /\ Uniform(image)
    /\ image.width >= 2
    /\ image.height >= 2
    /\ diffToEdge
    /\ limit = 0

\* the Chebyshev distance of two colours: the largest absolute channel difference
ColourDistance(a, b) == SetMax({Abs(a[c] - b[c]) : c \in 1..4})

\* the image is bg everywhere except for the solid block (x0, y0)-(x1, y1) of fg
IsBlockImage(img, x0, y0, x1, y1, bg, fg) ==
    \A x \in 0..(img.width - 1), y \in 0..(img.height - 1) :
        PixelAt(img, x, y) = IF x >= x0 /\ x < x1 /\ y >= y0 /\ y < y1 THEN fg ELSE bg

\* the blocks of positive size that do not touch the border of the image
InnerBlocks(img) ==
    {b \in (1..(img.width - 1)) \X (1..(img.height - 1))
             \X (1..(img.width - 1)) \X (1..(img.height - 1)) :
        b[1] < b[3] /\ b[2] < b[4]}

\* C8: in neighbor mode, for a uniform image with one solid block of a second colour
\* that does not touch the border and whose Chebyshev distance from the background
\* exceeds limit, each side of the rectangle findMargins returns is within one
\* pixel of the block's side.
C8_BlockIsFound ==
    (pc = "queried" /\ ~diffToEdge) =>
        \A b \in InnerBlocks(image), bg \in Palette, fg \in Palette :
            ( /\ bg # fg
              /\ IsBlockImage(image, b[1], b[2], b[3], b[4], bg, fg)
              /\ ColourDistance(bg, fg) > limit ) =>
                /\ Abs(margins.left - b[1]) <= 1
                /\ Abs(margins.top - b[2]) <= 1
                /\ Abs(margins.right - b[3]) <= 1
                /\ Abs(margins.bottom - b[4]) <= 1

\* a block of more than one pixel, away from the border, queried at limit 10
C8_Witness ==
    /\ pc = "queried"
    /\ ~diffToEdge
    /\ limit = 10
    /\ \E b \in InnerBlocks(image), bg \in Palette, fg \in Palette :
         /\ bg # fg
         /\ (b[3] - b[1]) * (b[4] - b[2]) >= 2
         /\ IsBlockImage(image, b[1], b[2], b[3], b[4], bg, fg)
         /\ margins = Rectangle(b[1], b[2], b[3], b[4])

----------------------------------------------------------------------------
(* Properties of cropExpand (SpecCrop) *)

SourceBounds == Rectangle(0, 0, sourceWidthOf(source), sourceHeightOf(source))

SourcePixel(x, y) == source.pix[y * source.pixelWidth + x]

\* the colour of the padding: the one given, or that of the source's top-left pixel
PaddingOf == IF paddingColor = NoColor THEN SourcePixel(0, 0) ELSE paddingColor

\* C9: the ImageData cropExpand returns has the size of the crop rectangle, and
\* its pixel (i, j) is the source pixel (left + i, top + j), alpha included and
\* unblended, where that lies inside the source, and the padding colour
\* elsewhere; cropping to exactly the source bounds returns a copy of the source.
C9_CropPixels ==
    pc = "returned" =>
        /\ result.kind = "ImageData"
        /\ result.width = getWidth(cropRect)
        /\ result.height = getHeight(cropRect)
        /\ DOMAIN result.data = 0..(getWidth(cropRect) * getHeight(cropRect) - 1)
        /\ \A i \in 0..(getWidth(cropRect) - 1), j \in 0..(getHeight(cropRect) - 1) :
              result.data[j * getWidth(cropRect) + i] =
                  IF contains(SourceBounds, cropRect.left + i, cropRect.top + j)
                  THEN SourcePixel(cropRect.left + i, cropRect.top + j)
                  ELSE PaddingOf
        /\ cropRect = SourceBounds => result.data = source.pix

\* a crop reaching one pixel beyond every side of a source that has a
\* semi-transparent pixel, padded with opaque blue, has returned
C9_Witness ==
    /\ pc = "returned"
    /\ cropRect = grow(SourceBounds, 1)
    /\ paddingColor = OpaqueBlue
    /\ \E i \in DOMAIN source.pix : source.pix[i] = SemiGreen
    /\ result.data[0] = OpaqueBlue

SourceUndetermined == sourceWidthOf(source) = 0 \/ sourceHeightOf(source) = 0

CropNotPositive == getWidth(cropRect) <= 0 \/ getHeight(cropRect) <= 0

\* C10: a call with a crop rectangle of width <= 0 or height <= 0 ends in an
\* error, a call whose source dimensions cannot be determined ends in a
\* different error, an error leaves no canvas allocated and no ImageData, and
\* ImageData is only ever produced by a call that ran to its end.
C10_FailsBeforeAllocation ==
    /\ (pc # "called" /\ SourceUndetermined) =>
          /\ pc = "thrown"
          /\ result = [kind |-> "error", message |-> "Could not determine source image dimensions"]
    /\ (pc # "called" /\ ~SourceUndetermined /\ CropNotPositive) =>
          /\ pc = "thrown"
          /\ result = [kind |-> "error", message |-> "Crop rectangle must have positive width and height"]
    /\ pc = "thrown" =>
          /\ SourceUndetermined \/ CropNotPositive
          /\ result.kind = "error"
          /\ canvas = NoCanvas
    /\ result.kind = "ImageData" => pc = "returned"
    /\ canvas # NoCanvas => ~SourceUndetermined /\ ~CropNotPositive

\* a call on a source of known size with a crop rectangle of width 0 and
\* positive height has thrown
C10_Witness ==
    /\ pc = "thrown"
    /\ ~SourceUndetermined
    /\ getWidth(cropRect) = 0
    /\ getHeight(cropRect) > 0
    /\ canvas = NoCanvas

\* the output pixels that lie outside the source bounds, as <<i, j>>
OutsidePixels ==
    {ij \in (0..(getWidth(cropRect) - 1)) \X (0..(getHeight(cropRect) - 1)) :
        ~contains(SourceBounds, cropRect.left + ij[1], cropRect.top + ij[2])}

\* C11: with no explicit padding colour every output pixel outside the source
\* bounds has exactly the colour of the source pixel (0, 0); with an explicit
\* padding colour those pixels have that colour and the top-left pixel of the
\* source is never sampled.
C11_DefaultPaddingIsTopLeft ==
    /\ sampled => (paddingColor = NoColor /\ pc \in {"filled", "drawn", "returned"})
    /\ pc \in {"filled", "drawn", "returned"} => sampled = (paddingColor = NoColor)
    /\ pc = "returned" =>
          \A ij \in OutsidePixels :
              result.data[ij[2] * getWidth(cropRect) + ij[1]] =
                  IF paddingColor = NoColor THEN source.pix[0] ELSE paddingColor

\* a call without a padding colour, on a source whose top-left pixel is opaque red
\* and whose next pixel is not, with a crop that reaches outside on the left and at
\* the bottom, has returned
C11_Witness ==
    /\ pc = "returned"
    /\ paddingColor = NoColor
    /\ sampled
    /\ source.pix[0] = OpaqueRed
    /\ source.pixelWidth >= 2
    /\ source.pix[1] # OpaqueRed
    /\ cropRect.left < 0
    /\ cropRect.bottom > sourceHeightOf(source)
    /\ Cardinality(OutsidePixels) >= 2

----------------------------------------------------------------------------
(* Properties of the edge map (SpecEdges) *)

\* the sample of pixel (x, y) in the edge map: <<up, down, left, right>>
SampleAt(x, y) == edgeMap[y * edgeMaxValues.width + x]

Processed == pc \in {"aggregated", "queried"}

\* C12: after neighbor-mode edge detection every pixel on the outer edge of the
\* image has outward-facing edge strength 0: left for column 0, right for the
\* last column, up for row 0, down for the last row.
C12_BoundaryClamp ==
    (Processed /\ ~diffToEdge) =>
        \A x \in Columns, y \in Rows :
            /\ x = 0 => SampleAt(x, y)[3] = 0
            /\ x = edgeMaxValues.width - 1 => SampleAt(x, y)[4] = 0
            /\ y = 0 => SampleAt(x, y)[1] = 0
            /\ y = edgeMaxValues.height - 1 => SampleAt(x, y)[2] = 0

\* a neighbor-mode pass over an image whose corner pixel (0, 0) differs from the
\* pixels at the far ends of its row and column and from its right neighbour
C12_Witness ==
    /\ Processed
    /\ ~diffToEdge
    /\ image.width >= 3
    /\ image.height >= 2
    /\ PixelAt(image, 0, 0) # PixelAt(image, image.width - 1, 0)
    /\ PixelAt(image, 0, 0) # PixelAt(image, 0, image.height - 1)
    /\ SampleAt(0, 0)[4] > 0
    /\ SampleAt(0, 0)[3] = 0

\* C13: in border mode the four edge strengths of every pixel (x, y) are the
\* Chebyshev distances, integers in 0..255, between its colour and the colours of
\* pixel (x, 0) for up, (x, H-1) for down, (0, y) for left and (W-1, y) for right.
C13_BorderMode ==
    (Processed /\ diffToEdge) =>
        \A x \in Columns, y \in Rows :
            /\ SampleAt(x, y) =
                 <<ColourDistance(PixelAt(image, x, y), PixelAt(image, x, 0)),
                   ColourDistance(PixelAt(image, x, y), PixelAt(image, x, image.height - 1)),
                   ColourDistance(PixelAt(image, x, y), PixelAt(image, 0, y)),
                   ColourDistance(PixelAt(image, x, y), PixelAt(image, image.width - 1, y))>>
            /\ \A c \in 1..4 : SampleAt(x, y)[c] \in 0..255

\* a border-mode pass in which pixel (2, 0) has the colour of its left neighbour
\* but not that of pixel (0, 0), and a left strength above 0
C13_Witness ==
    /\ Processed
    /\ diffToEdge
    /\ image.width >= 3
    /\ image.height >= 1
    /\ PixelAt(image, 2, 0) = PixelAt(image, 1, 0)
    /\ PixelAt(image, 2, 0) # PixelAt(image, 0, 0)
    /\ SampleAt(2, 0)[3] = 128

----------------------------------------------------------------------------
(* Properties of Rectangle (SpecRect) *)

\* the integer points a rectangle over RectCoords can contain
Points == RectCoords \X RectCoords

\* the point p lies in the half-open region of r
InRegion(r, p) == r.left <= p[1] /\ p[1] < r.right /\ r.top <= p[2] /\ p[2] < r.bottom

\* C14: a Rectangle keeps the four integers it was constructed with, whatever
\* their order; contains(x, y) is true iff left <= x < right and top <= y < bottom;
\* isEmpty() is true iff right <= left or bottom <= top, which is iff no integer
\* point is contained; and every operation can be called on every Rectangle.
C14_HalfOpenRegion ==
    pc = "rect" =>
        /\ call.op = "new" =>
              /\ thisRect.left = call.args[1]
              /\ thisRect.top = call.args[2]
              /\ thisRect.right = call.args[3]
              /\ thisRect.bottom = call.args[4]
              /\ ENABLED IsEmptyCall
              /\ \A x \in RectCoords, y \in RectCoords : ENABLED ContainsCall(x, y)
              /\ \A amount \in GrowAmounts : ENABLED GrowCall(amount)
              /\ ENABLED IntersectCall(thisRect)
        /\ call.op = "contains" =>
              call.ret = ( /\ thisRect.left <= call.args[1]
                           /\ call.args[1] < thisRect.right
                           /\ thisRect.top <= call.args[2]
                           /\ call.args[2] < thisRect.bottom )
        /\ call.op = "isEmpty" =>
              /\ call.ret = (thisRect.right <= thisRect.left \/ thisRect.bottom <= thisRect.top)
              /\ call.ret = ~(\E p \in Points : contains(thisRect, p[1], p[2]))

\* contains was asked about the point on the right side of a non-empty rectangle
\* and answered no
C14_Witness ==
    /\ pc = "rect"
    /\ call.op = "contains"
    /\ ~isEmpty(thisRect)
    /\ call.args[1] = thisRect.right
    /\ call.args[2] = thisRect.top
    /\ call.ret = FALSE

\* C15: a.intersect(b) is the new rectangle (max of the lefts, max of the tops,
\* min of the rights, min of the bottoms); it contains a point iff a and b both
\* do, so it is empty exactly when a and b share no point; a is left unchanged.
C15_IntersectIsCommonRegion ==
    (pc = "rect" /\ call.op = "intersect") =>
        LET a == thisRect
            b == call.args[1]
        IN  /\ call.ret.left = (IF a.left >= b.left THEN a.left ELSE b.left)
            /\ call.ret.top = (IF a.top >= b.top THEN a.top ELSE b.top)
            /\ call.ret.right = (IF a.right <= b.right THEN a.right ELSE b.right)
            /\ call.ret.bottom = (IF a.bottom <= b.bottom THEN a.bottom ELSE b.bottom)
            /\ \A p \in Points :
                  contains(call.ret, p[1], p[2]) = (contains(a, p[1], p[2]) /\ contains(b, p[1], p[2]))
            /\ isEmpty(call.ret) = ~(\E p \in Points : InRegion(a, p) /\ InRegion(b, p))
            /\ a = newRect
            /\ isEmpty(intersect(Rectangle(0, 0, 10, 10), Rectangle(20, 20, 30, 30)))

\* two non-empty rectangles that overlap in part: the intersection is non-empty
\* and is neither of them
C15_Witness ==
    /\ pc = "rect"
    /\ call.op = "intersect"
    /\ ~isEmpty(call.ret)
    /\ call.ret # thisRect
    /\ call.ret # call.args[1]

\* C16: intersect is idempotent, commutative and associative on all rectangles,
\* empty and inverted ones included, equality being that of the four fields.
C16_IntersectLaws ==
    (pc = "rect" /\ call.op = "intersect") =>
        LET a == thisRect
            b == call.args[1]
        IN  /\ intersect(a, a) = a
            /\ call.ret = intersect(b, a)
            /\ \A c \in Rects : intersect(call.ret, c) = intersect(a, intersect(b, c))

\* an inverted rectangle was intersected with a non-empty one lying to its left
C16_Witness ==
    /\ pc = "rect"
    /\ call.op = "intersect"
    /\ thisRect.right < thisRect.left
    /\ ~isEmpty(call.args[1])
    /\ call.args[1].left < thisRect.left

\* C17: grow(n) moves left and top by -n and right and bottom by +n in place and
\* returns the rectangle; grow(n) followed by grow(-n) restores the original
\* left, top, right and bottom, for n positive, zero or negative.
C17_GrowRoundTrip ==
    pc = "rect" =>
        /\ call.op = "grow" =>
              /\ thisRect = [left |-> newRect.left - call.args[1],
                             top |-> newRect.top - call.args[1],
                             right |-> newRect.right + call.args[1],
                             bottom |-> newRect.bottom + call.args[1]]
              /\ call.ret = thisRect
        /\ call.op = "growBack" =>
              /\ thisRect = newRect
              /\ call.ret = thisRect

\* a non-empty rectangle that grow(-2) inverts has been grown back by 2
C17_Witness ==
    /\ pc = "rect"
    /\ call.op = "growBack"
    /\ call.args[1] = 2
    /\ getWidth(thisRect) \in 1..2
    /\ getHeight(thisRect) \in 1..2

\* C18: if the width or the height is 0, edge detection reads no sample and
\* leaves every row and column maximum 0 (or the arrays empty), and findMargins
\* returns an empty rectangle at every limit >= 0.
C18_ZeroSizeIsNoOp ==
    (Processed /\ (edgeMaxValues.width = 0 \/ edgeMaxValues.height = 0)) =>
        /\ edgeMap = <<>>
        /\ DOMAIN edgeMaxValues.rowMaxs = 0..(edgeMaxValues.height - 1)
        /\ DOMAIN edgeMaxValues.columnMaxs = 0..(edgeMaxValues.width - 1)
        /\ \A y \in Rows : edgeMaxValues.rowMaxs[y] = 0
        /\ \A x \in Columns : edgeMaxValues.columnMaxs[x] = 0
        /\ (pc = "queried" /\ limit >= 0) => isEmpty(margins)

\* an EdgeFinder of width 0 and height of 2 or more has processed and been queried
\* at limit 0
C18_Witness ==
    /\ pc = "queried"
    /\ edgeMaxValues.width = 0
    /\ edgeMaxValues.height >= 2
    /\ limit = 0
    /\ isEmpty(margins)

----------------------------------------------------------------------------
(* Properties of the aggregation (SpecFold) *)

\* the largest member of a set of bytes, 0 for the empty set
MaxOrZero(S) == IF S = {} THEN 0 ELSE SetMax(S)

\* the pixel indices of row y / of column x among the indices in S
InRow(S, y) == {i \in S : i \div edgeMaxValues.width = y}

InColumn(S, x) == {i \in S : i % edgeMaxValues.width = x}

\* C19: after a complete pass over the edge map, every channel of getRowMax(y) is
\* the maximum of that channel over the samples of row y, and every channel of
\* getColumnMax(x) the maximum over the samples of column x; no channel of the
\* packed word is changed by the value of another.
C19_MaximaPerChannel ==
    pc = "aggregated" =>
        /\ \A y \in Rows, c \in 1..4 :
              getRowMax(edgeMaxValues, y)[c] = SetMax({edgeMap[i][c] : i \in InRow(DOMAIN edgeMap, y)})
        /\ \A x \in Columns, c \in 1..4 :
              getColumnMax(edgeMaxValues, x)[c] = SetMax({edgeMap[i][c] : i \in InColumn(DOMAIN edgeMap, x)})

\* a pass over an edge map of two columns in which a row holds a sample with 255
\* in the top byte next to one with 255 in the third byte
C19_Witness ==
    /\ pc = "aggregated"
    /\ edgeMaxValues.width = 2
    /\ edgeMap[0] = <<128, 255, 0, 255>>
    /\ edgeMap[1] = <<1, 128, 255, 0>>
    /\ getRowMax(edgeMaxValues, 0) = <<128, 255, 255, 255>>

\* C20: the aggregates depend only on which samples have been folded, not on the
\* order or the number of considerSample calls: they hold the channel maxima of
\* the folded samples, folding a folded sample again changes nothing, and once
\* every sample is folded they equal those of the pass of updateEdgeMaxValues.
C20_FoldOrderIrrelevant ==
    pc \in {"cleared", "folding", "aggregated"} =>
        /\ \A y \in Rows, c \in 1..4 :
              getRowMax(edgeMaxValues, y)[c] = MaxOrZero({edgeMap[i][c] : i \in InRow(folded, y)})
        /\ \A x \in Columns, c \in 1..4 :
              getColumnMax(edgeMaxValues, x)[c] = MaxOrZero({edgeMap[i][c] : i \in InColumn(folded, x)})
        /\ \A i \in folded :
              considerSample(edgeMaxValues, i % edgeMaxValues.width, i \div edgeMaxValues.width,
                             getUint32(edgeMap, i)) = edgeMaxValues
        /\ folded = DOMAIN edgeMap =>
              edgeMaxValues = updateEdgeMaxValues(clear(edgeMaxValues), edgeMap,
                                                  edgeMaxValues.width, edgeMaxValues.height)

\* every sample of an edge map of two columns whose samples all differ has been
\* folded by single considerSample calls
C20_Witness ==
    /\ pc = "folding"
    /\ edgeMaxValues.width = 2
    /\ folded = DOMAIN edgeMap
    /\ Cardinality({edgeMap[i] : i \in DOMAIN edgeMap}) = 4

----------------------------------------------------------------------------
(* Properties of repeated passes (SpecReuse) *)

\* C22: after any sequence of processImage calls on one EdgeFinder the aggregates
\* are those a fresh EdgeFinder of the same size holds after processing the last
\* image alone; no maximum of an earlier image survives.
C22_RebuiltFromScratch ==
    pc \in {"aggregated", "rebuilt"} =>
        edgeMaxValues =
            updateEdgeMaxValues(EdgeMaxValues(edgeMaxValues.width, edgeMaxValues.height),
                                readPixels(image, diffToEdge, edgeMaxValues.width, edgeMaxValues.height),
                                edgeMaxValues.width, edgeMaxValues.height)

\* a pass that found maxima of an earlier image has processed a uniform image of
\* three columns and two rows, and every maximum is 0
C22_Witness ==
    /\ pc = "rebuilt"
    /\ image.width = 3
    /\ image.height = 2
    /\ Uniform(image)
    /\ edgeMaxValues = clear(edgeMaxValues)

----------------------------------------------------------------------------
(* Properties of neighbor-mode aggregates (SpecEdges) *)

\* C24: in neighbor mode the left maximum of every column from 1 on equals the
\* right maximum of the column before it, and the up maximum of every row from 1
\* on the down maximum of the row before it; so findMargins, at any limit, finds
\* both bounds of an axis or neither and returns left <= right and top <= bottom.
C24_NeighbourAggregatesPair ==
    (Processed /\ ~diffToEdge) =>
        /\ \A x \in Columns \ {0} :
              getColumnMax(edgeMaxValues, x)[3] = getColumnMax(edgeMaxValues, x - 1)[4]
        /\ \A y \in Rows \ {0} :
              getRowMax(edgeMaxValues, y)[1] = getRowMax(edgeMaxValues, y - 1)[2]
        /\ pc = "queried" =>
              /\ (ColsLeft(edgeMaxValues, limit) = {}) = (ColsRight(edgeMaxValues, limit) = {})
              /\ (RowsUp(edgeMaxValues, limit) = {}) = (RowsDown(edgeMaxValues, limit) = {})
              /\ margins.left <= margins.right
              /\ margins.top <= margins.bottom

\* a neighbor-mode pass over an image with vertical stripes only: both bounds of
\* the x axis are found, neither of the y axis
C24_Witness ==
    /\ pc = "queried"
    /\ ~diffToEdge
    /\ limit = 10
    /\ image.width >= 3
    /\ image.height >= 2
    /\ XFound
    /\ RowsUp(edgeMaxValues, limit) = {}
    /\ RowsDown(edgeMaxValues, limit) = {}
    /\ margins.left < margins.right

----------------------------------------------------------------------------
(* Properties of findMargins at any limit (SpecMargins) *)

\* C25: for every EdgeMaxValues and every limit, below 0 and above 255 included,
\* findMargins returns, leaves the EdgeMaxValues unchanged, and gives a rectangle
\* with left and right in 0..W and top and bottom in 0..H; at a limit below 0
\* the rectangle is (0, 0, W, H).  (Every step that is a findMargins call is
\* looked at: a step that changes neither pc nor the limit repeats the last call.)
C25_MarginsWithinImage ==
    [][ pc' = "queried" =>
          /\ edgeMaxValues' = edgeMaxValues
          /\ margins'.left \in 0..edgeMaxValues.width
          /\ margins'.right \in 0..edgeMaxValues.width
          /\ margins'.top \in 0..edgeMaxValues.height
          /\ margins'.bottom \in 0..edgeMaxValues.height
          /\ limit' < 0 =>
                margins' = Rectangle(0, 0, edgeMaxValues.width, edgeMaxValues.height)
      ]_<<pc, ToString(limit)>>

\* findMargins at limit -1 on aggregates of 3 by 2 whose columns hold a zero
\* right maximum has returned the whole image
C25_Witness ==
    /\ pc = "queried"
    /\ limit = -1
    /\ edgeMaxValues.width = 3
    /\ edgeMaxValues.height = 2
    /\ \A x \in 0..2 : getColumnMax(edgeMaxValues, x)[4] = 0
    /\ margins = Rectangle(0, 0, 3, 2)

----------------------------------------------------------------------------
(* Properties of the page (SpecUI) *)

\* the aggregates a complete pass of a new EdgeFinder over bitmap leaves
FullPass(bitmap) ==
    processImage(EdgeMaxValues(bitmap.width, bitmap.height), bitmap, FALSE)

\* C23: whatever the order of slider inputs, image loads and bitmap completions,
\* findMargins has only ever read an EdgeFinder whose pass was complete, and the
\* app's EdgeFinder, when there is one, holds exactly the aggregates of a full
\* clear-and-refill over its bitmap, from which the current margins were found.
C23_QueriesSeeCompletePass ==
    /\ app.queried # <<>> => app.queried = <<"complete">>
    /\ app.edgeFinder # <<>> =>
         /\ app.edgeFinder[1].pass = "complete"
         /\ app.edgeFinder[1].bitmap # <<>>
         /\ app.edgeFinder[1].edgeMaxValues = FullPass(app.edgeFinder[1].bitmap[1])
         /\ app.currentMargins # <<>>
         /\ app.currentMargins[1] =
              findMargins(FullPass(app.edgeFinder[1].bitmap[1]), app.limitSlider)

\* C23 witness: a slider input queried the EdgeFinder while another invocation of
\* processImageWithEdgeFinder was waiting for its bitmap.
C23_Witness ==
    /\ pc = "adjusted"
    /\ app.queried = <<"complete">>
    /\ pending # <<>>

\* C26: once no invocation is pending, the EdgeFinder and the current margins are
\* those of the image sourceImage shows.
C26_ResultsOfShownImage ==
    (pending = <<>> /\ app.edgeFinder # <<>>) =>
        /\ app.edgeFinder[1].bitmap = <<canvasOf(app.sourceImage)>>
        /\ app.edgeFinder[1].edgeMaxValues = FullPass(canvasOf(app.sourceImage))
        /\ app.currentMargins =
             <<findMargins(FullPass(canvasOf(app.sourceImage)), app.limitSlider)>>

\* C27: showCropDialog calls cropExpand only with current margins that are set and
\* not empty, on the current margins grown by the margin slider; when the slider is
\* not negative that rectangle has positive width and height and cropExpand does not
\* throw its crop-dimension error; and the current margins stay the rectangle
\* findMargins returned, untouched by the grow.
C27_CropOnlyWithMargins ==
    /\ pc = "cropped" =>
         /\ app.currentMargins # <<>>
         /\ ~isEmpty(app.currentMargins[1])
         /\ app.crop[1].cropRect =
              Rectangle(app.currentMargins[1].left - app.marginSlider,
                        app.currentMargins[1].top - app.marginSlider,
                        app.currentMargins[1].right + app.marginSlider,
                        app.currentMargins[1].bottom + app.marginSlider)
         /\ app.marginSlider >= 0 =>
              /\ getWidth(app.crop[1].cropRect) > 0
              /\ getHeight(app.crop[1].cropRect) > 0
              /\ app.crop[1].imageData.kind = "ImageData"
    /\ app.currentMargins # <<>> =>
         app.currentMargins[1] =
           findMargins(app.edgeFinder[1].edgeMaxValues, app.limitSlider)

\* C27 witness: the dialog cropped with a margin of 1 around margins found.
C27_Witness ==
    /\ pc = "cropped"
    /\ app.marginSlider = 1
    /\ app.crop[1].imageData.kind = "ImageData"
    /\ app.crop[1].imageData.width = getWidth(app.currentMargins[1]) + 2

----------------------------------------------------------------------------
(* Properties of the click detection (SpecZoom) *)

\* the step is an event that called clickHandler (two events in a row differ:
\* a pointer goes down between two pointerups of it)
Clicks == lastEvent'.clicked # <<>> /\ lastEvent' # lastEvent

\* what the pointerdown the click reports met and what happened between it and
\* the event that reports it
ClickHistory == env.since[lastEvent'.clicked[1].pointerId]

\* the parts of the click detection that do not depend on what counts as a pointer
\* being down
ClickAtLoneUp ==
    /\ lastEvent'.event.type = "pointerup"
    /\ DOMAIN scrollZoom'.pointerState = {}
    /\ ClickHistory # <<>>
    /\ ClickHistory[1].event = lastEvent'.clicked[1]
    /\ lastEvent'.clicked[1].type = "pointerdown"
    /\ lastEvent'.event.timeStamp - lastEvent'.clicked[1].timeStamp < 200
    /\ ~ClickHistory[1].disturbed

NullAfterEnd ==
    lastEvent'.event.type \in {"pointerup", "pointercancel", "wheel"} =>
        scrollZoom'.singlePointerDownEvent = <<>>

\* C28, as amended: clickHandler is called only at a pointerup that leaves
\* pointerState empty, less than 200 ms after the pointerdown it reports, which
\* arrived while pointerState was empty, with no wheel, pointercancel or pointerup
\* between the two and never two pointers in pointerState at once between the two;
\* and singlePointerDownEvent is null after every pointerup, pointercancel and wheel.
C28_ClickOnlyForLoneTrackedPointer ==
    [][ /\ Clicks => /\ ClickAtLoneUp
                     /\ ClickHistory[1].stateEmpty
                     /\ ~ClickHistory[1].twoTracked
        /\ NullAfterEnd ]_vars

\* C28 witness: a pointerup reported a click.
C28_Witness ==
    /\ pc = "listening"
    /\ lastEvent.event.type = "pointerup"
    /\ lastEvent.clicked # <<>>
    /\ lastEvent.event.timeStamp - lastEvent.clicked[1].timeStamp = 100

\* C28, as stated: the same, where the pointerdown reported arrived while no pointer
\* was held down and no two pointers were held down at once between it and the click.
C28_ClickOnlyForLonePointer ==
    [][ /\ Clicks => /\ ClickAtLoneUp
                     /\ ClickHistory[1].noneDown
                     /\ ~ClickHistory[1].twoDown
        /\ NullAfterEnd ]_vars

====
